---- MODULE Spec2Model ----
(***************************************************************************)
(* luscroll: a daemon that grabs every mouse under /dev/input, mirrors it  *)
(* through a uinput device, and turns "middle button held + vertical       *)
(* motion" into high-resolution wheel events (src/luscroll.c).             *)
(*                                                                         *)
(* The model keeps the intrusive linked list of LUMouse structs (g.mice),  *)
(* the kernel-side resources the program acquires (file descriptors,       *)
(* libevdev descriptors, EVIOCGRAB grabs, uinput devices) and, as history, *)
(* the events read from each mouse and written to each uinput device.      *)
(***************************************************************************)
EXTENDS Integers, Sequences, FiniteSets, TLC

(* ----------------------------- bounds ---------------------------------- *)
NumPaths  == 3     \* event nodes /dev/input/event1 .. eventNumPaths
LifeNodes == 2     \* event nodes of the runs with hot-plug notifications
MaxAdds   == 1     \* udev notifications delivered over a run
MaxReads  == 4     \* input events read over a run with a single mouse plugged in
LifeReads == 1     \* input events read over a run with hot-plug notifications

(* ------------------- linux/input-event-codes.h ------------------------- *)
EV_KEY           == 1
EV_REL           == 2
REL_X            == 0
REL_Y            == 1
REL_WHEEL_HI_RES == 11
KEY_ESC          == 1
BTN_MIDDLE       == 274

(* ------------------------- enum, lines 20-24 --------------------------- *)
MOUSE_STATE_NONE      == 0
MOUSE_STATE_DEAD      == 1
MOUSE_STATE_SCROLLING == 4

NULL == 0

\* s & bit # 0, for a single-bit mask
HasFlag(s, bit) == (s \div bit) % 2 = 1
\* s | bit
SetFlag(s, bit) == IF HasFlag(s, bit) THEN s ELSE s + bit
\* s & ~bit
ClearFlag(s, bit) == IF HasFlag(s, bit) THEN s - bit ELSE s

\* the range of int (and of input_event.value)
INT_MAX == 2147483647
INT_MIN == -INT_MAX - 1

\* -v * 2 computed in int leaves the range of int: signed overflow
NegTimes2Overflows(v) == v < -(INT_MAX \div 2) \/ v > (INT_MAX \div 2) + 1

\* -v * 2 reduced modulo 2^32 into the range of int, which is what the
\* two's-complement instructions leave when the overflow is not trapped
NegTimes2(v) ==
  IF v < -(INT_MAX \div 2) THEN (-2) * ((v + INT_MAX) + 1)
  ELSE IF v > (INT_MAX \div 2) + 1 THEN (-2) * ((v - INT_MAX) - 1)
  ELSE (-v) * 2

(* --------------------------- identifiers ------------------------------- *)
Paths    == 1..NumPaths               \* event nodes; 0 is /dev/input/mice, -1 a NULL devnode
MouseIds == 1..(NumPaths + 1)         \* addresses calloc can return
FdIds    == 1..(NumPaths + 1)         \* file descriptors open can return
SinkIds  == 1..(NumPaths + MaxAdds)   \* uinput devices the kernel can hold

Event(t, c, v) == [type |-> t, code |-> c, value |-> v]

\* what a device can deliver through libevdev_next_event
Events ==
  { Event(EV_KEY, BTN_MIDDLE, 1), Event(EV_KEY, BTN_MIDDLE, 2),
    Event(EV_KEY, BTN_MIDDLE, 0),
    Event(EV_REL, REL_Y, 5), Event(EV_REL, REL_Y, -3),
    Event(EV_REL, REL_Y, -1073741824),
    Event(EV_REL, REL_X, 1), Event(EV_KEY, KEY_ESC, 1) }

\* the events delivered in the runs that exercise registration and removal
FewEvents ==
  { Event(EV_KEY, BTN_MIDDLE, 1), Event(EV_KEY, BTN_MIDDLE, 0), Event(EV_REL, REL_Y, 5) }

\* calloc(1, sizeof(LUMouse))
ZeroMouse == [fd |-> 0, dev |-> NULL, dev_uinput |-> NULL,
              state |-> MOUSE_STATE_NONE, next |-> NULL]

Min(S) == CHOOSE x \in S : \A y \in S : x <= y

(* ------------------------------ state ---------------------------------- *)
VARIABLES
  pc,        \* where main is: "scan" "udev" "loop" "hotplug" "drain" "sweep" "exited" "crashed"
  scan_i,    \* index of the next readdir entry of the startup scan
  mice,      \* g.mice: head of the list (NULL when empty)
  mem,       \* heap: the LUMouse stored at each address
  alloc,     \* addresses currently allocated
  stopped,   \* g.stopped
  cur,       \* the loop variable `mouse` of the drain loop (line 177)
  fds,       \* kernel: the event node each open file descriptor refers to (0: closed)
  descs,     \* libevdev descriptors alive (a descriptor is named by the fd it was built from)
  grab,      \* kernel: the fd holding EVIOCGRAB on each event node (0: none)
  sinks,     \* kernel: uinput devices in existence
  written,   \* history: events written to each uinput device
  readlog,   \* history: events read from the mouse that owns each uinput device
  world,     \* environment: the event nodes /dev/input holds at startup and
             \* the events the devices deliver
  adds_left, \* environment: udev notifications still to be delivered
  reads_left,\* environment: input events still to be delivered
  last,      \* history: the registration attempt or read made by the last step
  trace      \* history: the release calls made by the last step, in order

vars == <<pc, scan_i, mice, mem, alloc, stopped, cur, fds, descs, grab, sinks,
          written, readlog, world, adds_left, reads_left, last, trace>>

\* the part of the state that unregister_mouse and check_register_mouse work on
G == [mice |-> mice, mem |-> mem, alloc |-> alloc, fds |-> fds, descs |-> descs,
      grab |-> grab, sinks |-> sinks, crashed |-> FALSE, ops |-> << >>]

\* outcomes of a step that runs into undefined behaviour: the process is
\* killed, or it goes on; a step that meets none goes on
UB == {"crash", "go"}
UBIf(undefined) == IF undefined THEN UB ELSE {"go"}

NoLast == [op |-> "none", path |-> 0, outcome |-> "none"]

(* ------------------------ library and kernel --------------------------- *)
\* one release call: its name, the handle it was given, and whether that handle
\* was in use when the call was made
Op(op, h, live) == [op |-> op, h |-> h, live |-> live]

\* a cleanup that forgets the close
close_Forgotten(st, fd) == st

\* close(fd): closing the descriptor also drops a grab held through it; close(-1) fails
close(st, fd) ==
  IF fd \in FdIds
  THEN [st EXCEPT !.fds[fd] = 0,
                  !.grab = [p \in Paths |-> IF st.grab[p] = fd THEN 0 ELSE st.grab[p]],
                  !.ops = Append(@, Op("close", fd, st.fds[fd] # 0))]
  ELSE [st EXCEPT !.ops = Append(@, Op("close", fd, FALSE))]

\* libevdev_grab(dev, LIBEVDEV_UNGRAB) on a descriptor that was built
libevdev_ungrab(st, dev) ==
  [st EXCEPT !.grab = [p \in Paths |-> IF st.grab[p] = dev THEN 0 ELSE st.grab[p]],
             !.ops = Append(@, Op("libevdev_grab", dev, dev \in st.descs))]

\* libevdev_free(dev); libevdev_free(NULL) does nothing
libevdev_free(st, dev) ==
  [st EXCEPT !.descs = @ \ {dev},
             !.ops = Append(@, Op("libevdev_free", dev, dev \in st.descs))]

\* free(mouse)
free(st, mouse) ==
  [st EXCEPT !.alloc = @ \ {mouse}, !.mem[mouse] = ZeroMouse,
             !.ops = Append(@, Op("free", mouse, mouse \in st.alloc))]

(* ------------------- unregister_mouse, lines 48-66 --------------------- *)
RECURSIVE UnlinkFrom(_, _, _)
\* the for loop of lines 55-60, started at m
UnlinkFrom(hp, m, mouse) ==
  IF m = NULL THEN hp
  ELSE IF hp[m].next = mouse
       THEN [hp EXCEPT ![m].next = hp[hp[m].next].next]
       ELSE UnlinkFrom(hp, hp[m].next, mouse)

\* an unlink without the head case of lines 52-53
Unlink_NoHead(st, mouse) == [st EXCEPT !.mem = UnlinkFrom(st.mem, st.mice, mouse)]

\* lines 52-61
Unlink(st, mouse) ==
  IF st.mice = mouse
  THEN [st EXCEPT !.mice = st.mem[mouse].next]
  ELSE [st EXCEPT !.mem = UnlinkFrom(st.mem, st.mice, mouse)]

\* a removal that unlinks and frees the struct and releases nothing
unregister_mouse_LeakHandle(st, mouse, ub) ==
  IF mouse = NULL THEN st ELSE free(Unlink(st, mouse), mouse)

\* a removal that closes the file descriptor before it releases the grab
unregister_mouse_CloseFirst(st, mouse, ub) ==
  IF mouse = NULL THEN st
  ELSE LET m  == st.mem[mouse]
           s1 == Unlink(st, mouse)
           s2 == close(s1, m.fd)
           s3 == libevdev_ungrab(s2, m.dev)
           s4 == libevdev_free(s3, m.dev)
       IN free(s4, mouse)

unregister_mouse(st, mouse, ub) ==
  IF mouse = NULL THEN st
  ELSE LET m  == st.mem[mouse]
           s1 == Unlink(st, mouse)
       IN IF m.dev = NULL /\ ub = "crash"
          THEN \* libevdev_grab reads through the NULL descriptor
               [s1 EXCEPT !.crashed = TRUE,
                          !.ops = Append(@, Op("libevdev_grab", NULL, FALSE))]
          ELSE LET s2 == IF m.dev = NULL
                         THEN [s1 EXCEPT !.ops = Append(@, Op("libevdev_grab", NULL, FALSE))]
                         ELSE libevdev_ungrab(s1, m.dev)
                   s3 == libevdev_free(s2, m.dev)
                   s4 == close(s3, m.fd)
               IN free(s4, mouse)

(* ----------------- check_register_mouse, lines 68-111 ------------------ *)
\* what the environment answers to one registration attempt
Outcomes == {"nomem", "open_fail", "new_fail", "no_rel", "no_mid",
             "uinput_fail", "grab_fail", "ok"}

\* EVIOCGRAB cannot succeed on a node that is grabbed already
OutcomesFor(st, path) ==
  IF path \in Paths /\ st.grab[path] # 0 THEN Outcomes \ {"ok"} ELSE Outcomes

\* a registration that does not look at what libevdev_grab returned
libevdev_grab_ok_Unchecked(st, path, o) == TRUE

\* line 88: libevdev_grab(mouse->dev, LIBEVDEV_GRAB) returned 0
libevdev_grab_ok(st, path, o) == o # "grab_fail" /\ st.grab[path] = 0

\* start_with(path, DEV_INPUT "/event"), for the paths of the model
start_with_event(path) == path \in Paths

check_register_mouse(st, path, o, ub) ==
  IF path = -1 \/ ~start_with_event(path) THEN st
  ELSE IF o = "nomem" \/ MouseIds \ st.alloc = {}
  THEN unregister_mouse(st, NULL, ub)
  ELSE
    LET mouse   == Min(MouseIds \ st.alloc)
        s1      == [st EXCEPT !.alloc = @ \cup {mouse}, !.mem[mouse] = ZeroMouse]
        freeFds == {f \in FdIds : s1.fds[f] = 0}
        fd      == IF o = "open_fail" \/ freeFds = {} THEN -1 ELSE Min(freeFds)
        s2      == IF fd = -1 THEN [s1 EXCEPT !.mem[mouse].fd = -1]
                   ELSE [s1 EXCEPT !.mem[mouse].fd = fd, !.fds[fd] = path]
        new_ok  == fd # -1 /\ o # "new_fail"
        s3      == IF new_ok
                   THEN [s2 EXCEPT !.mem[mouse].dev = fd, !.descs = @ \cup {fd}]
                   ELSE s2
        is_mouse == new_ok /\ o # "no_rel" /\ o # "no_mid"
        freeSinks == SinkIds \ s3.sinks
        uinput_ok == is_mouse /\ o # "uinput_fail" /\ freeSinks # {}
        s4      == IF uinput_ok
                   THEN [s3 EXCEPT !.mem[mouse].dev_uinput = Min(freeSinks),
                                   !.sinks = @ \cup {Min(freeSinks)}]
                   ELSE s3
        grab_ok == uinput_ok /\ libevdev_grab_ok(s4, path, o)
        s5      == IF grab_ok THEN [s4 EXCEPT !.grab[path] = fd] ELSE s4
        is_ok   == grab_ok
    IN IF ~is_ok
       THEN unregister_mouse(s5, mouse, ub)
       ELSE [s5 EXCEPT !.mem[mouse].next = s5.mice, !.mice = mouse]

(* ----------------- unregister_dead_mice, lines 113-121 ----------------- *)
RECURSIVE SweepFrom_WrongFlag(_, _, _)
\* a sweep that tests the Scrolling bit where it should test the Dead bit
SweepFrom_WrongFlag(st, mouse, ub) ==
  IF mouse = NULL \/ st.crashed THEN st
  ELSE LET next_mouse == st.mem[mouse].next
       IN IF HasFlag(st.mem[mouse].state, MOUSE_STATE_SCROLLING)
          THEN SweepFrom_WrongFlag(unregister_mouse(st, mouse, ub), next_mouse, ub)
          ELSE SweepFrom_WrongFlag(st, next_mouse, ub)

RECURSIVE SweepFrom_NextAfter(_, _, _)
\* a sweep that reads mouse->next once unregister_mouse has returned
SweepFrom_NextAfter(st, mouse, ub) ==
  IF mouse = NULL \/ st.crashed THEN st
  ELSE IF HasFlag(st.mem[mouse].state, MOUSE_STATE_DEAD)
       THEN LET s1 == unregister_mouse(st, mouse, ub)
            IN SweepFrom_NextAfter(
                 [s1 EXCEPT !.ops = Append(@, Op("next", mouse, mouse \in s1.alloc))],
                 s1.mem[mouse].next, ub)
       ELSE SweepFrom_NextAfter(
              [st EXCEPT !.ops = Append(@, Op("next", mouse, mouse \in st.alloc))],
              st.mem[mouse].next, ub)

RECURSIVE SweepFrom(_, _, _)
\* the for loop of line 115, started at mouse; next_mouse is read before the unlink
SweepFrom(st, mouse, ub) ==
  IF mouse = NULL \/ st.crashed THEN st
  ELSE LET next_mouse == st.mem[mouse].next
           s1 == [st EXCEPT !.ops = Append(@, Op("next", mouse, mouse \in st.alloc))]
       IN IF HasFlag(st.mem[mouse].state, MOUSE_STATE_DEAD)
          THEN SweepFrom(unregister_mouse(s1, mouse, ub), next_mouse, ub)
          ELSE SweepFrom(s1, next_mouse, ub)

unregister_dead_mice(st, ub) == SweepFrom(st, st.mice, ub)

(* --------------------- event translation, lines 194-209 ---------------- *)
\* a middle-button test that forgets the code: any key event switches the state
NextState_AnyKey(s, evt) ==
  IF evt.type = EV_KEY
  THEN IF evt.value # 0 THEN SetFlag(s, MOUSE_STATE_SCROLLING)
                        ELSE ClearFlag(s, MOUSE_STATE_SCROLLING)
  ELSE s

\* a press that toggles the state instead of setting it
NextState_Toggle(s, evt) ==
  IF evt.type = EV_KEY /\ evt.code = BTN_MIDDLE
  THEN IF evt.value # 0 /\ ~HasFlag(s, MOUSE_STATE_SCROLLING)
       THEN SetFlag(s, MOUSE_STATE_SCROLLING)
       ELSE ClearFlag(s, MOUSE_STATE_SCROLLING)
  ELSE s

\* lines 195-201
NextState(s, evt) ==
  IF evt.type = EV_KEY /\ evt.code = BTN_MIDDLE
  THEN IF evt.value # 0 THEN SetFlag(s, MOUSE_STATE_SCROLLING)
                        ELSE ClearFlag(s, MOUSE_STATE_SCROLLING)
  ELSE s

\* a scrolling branch that forwards what it does not translate
Translate_ElseForward(s, evt) ==
  IF HasFlag(s, MOUSE_STATE_SCROLLING) /\ evt.type = EV_REL /\ evt.code = REL_Y
  THEN << Event(EV_REL, REL_WHEEL_HI_RES, NegTimes2(evt.value)) >>
  ELSE << evt >>

\* a pass-through that keeps every middle-button event from the sink
Translate_NoButtons(s, evt) ==
  IF HasFlag(s, MOUSE_STATE_SCROLLING)
  THEN IF evt.type = EV_REL /\ evt.code = REL_Y
       THEN << Event(EV_REL, REL_WHEEL_HI_RES, NegTimes2(evt.value)) >>
       ELSE << >>
  ELSE IF evt.type = EV_KEY /\ evt.code = BTN_MIDDLE THEN << >> ELSE << evt >>

\* lines 203-209: the events written for evt, s being the state after lines 195-201
Translate(s, evt) ==
  IF HasFlag(s, MOUSE_STATE_SCROLLING)
  THEN IF evt.type = EV_REL /\ evt.code = REL_Y
       THEN << Event(EV_REL, REL_WHEEL_HI_RES, NegTimes2(evt.value)) >>
       ELSE << >>
  ELSE << evt >>

\* the output chosen on the state the event found, the state updated afterwards
ProcessEvent_OutputFirst(s, evt) ==
  [state |-> NextState(s, evt), out |-> Translate(s, evt)]

\* lines 194-209: the state the event leaves and the events written for it
ProcessEvent(s, evt) ==
  [state |-> NextState(s, evt), out |-> Translate(NextState(s, evt), evt)]

(* ------------------------------- main ---------------------------------- *)
RECURSIVE Sorted(_)
Sorted(S) == IF S = {} THEN << >> ELSE << Min(S) >> \o Sorted(S \ {Min(S)})

\* the entries readdir returns for /dev/input: "mice", then the event nodes there
ScanDir == << 0 >> \o Sorted(world.present)

\* the runs explored: one mouse delivering many events; a few nodes, hot-plug
\* notifications arriving and few events; every node in use and silent
Worlds ==
  { [present |-> {1}, adds |-> 0, reads |-> MaxReads, events |-> Events],
    [present |-> 1..LifeNodes, adds |-> MaxAdds, reads |-> LifeReads,
     events |-> FewEvents],
    [present |-> Paths, adds |-> 0, reads |-> 0, events |-> FewEvents] }

\* the devnode of a udev notification: NULL, "/dev/input/mice", or an event node
DevNodes == {-1, 0} \cup world.present

Init ==
  /\ pc = "scan"
  /\ scan_i = 1
  /\ mice = NULL
  /\ mem = [m \in MouseIds |-> ZeroMouse]
  /\ alloc = {}
  /\ stopped = FALSE
  /\ cur = NULL
  /\ fds = [f \in FdIds |-> 0]
  /\ descs = {}
  /\ grab = [p \in Paths |-> 0]
  /\ sinks = {}
  /\ written = [s \in SinkIds |-> << >>]
  /\ readlog = [s \in SinkIds |-> << >>]
  /\ world \in Worlds
  /\ adds_left = world.adds
  /\ reads_left = world.reads
  /\ last = NoLast
  /\ trace = << >>

Running == pc \notin {"exited", "crashed"}

\* store the outcome of unregister_mouse / check_register_mouse / unregister_dead_mice
Store(st) ==
  /\ mice' = st.mice
  /\ mem' = st.mem
  /\ alloc' = st.alloc
  /\ fds' = st.fds
  /\ descs' = st.descs
  /\ grab' = st.grab
  /\ sinks' = st.sinks
  /\ trace' = st.ops

\* the uinput devices of the mice allocated in st
Attached(st) == {st.mem[m].dev_uinput : m \in st.alloc} \ {NULL}

\* the histories are kept for the mice that exist
KeepLogs(st) ==
  /\ written' = [s \in SinkIds |-> IF s \in Attached(st) THEN written[s] ELSE << >>]
  /\ readlog' = [s \in SinkIds |-> IF s \in Attached(st) THEN readlog[s] ELSE << >>]

KeepG == UNCHANGED <<mice, mem, alloc, fds, descs, grab, sinks>> /\ trace' = << >>

\* a handler that ends the process itself
sig_handler_Exits ==
  /\ Running
  /\ ~stopped
  /\ stopped' = TRUE
  /\ pc' = "exited"
  /\ last' = NoLast
  /\ KeepG
  /\ UNCHANGED <<scan_i, cur, written, readlog, world, adds_left, reads_left>>

\* sig_handler, lines 123-126: SIGINT may be delivered at any point
sig_handler ==
  /\ Running
  /\ ~stopped
  /\ stopped' = TRUE
  /\ last' = NoLast
  /\ KeepG
  /\ UNCHANGED <<pc, scan_i, cur, written, readlog, world, adds_left, reads_left>>

\* lines 145-149: one readdir entry of the startup scan
ScanEntry ==
  /\ pc = "scan"
  /\ scan_i <= Len(ScanDir)
  /\ \E o \in OutcomesFor(G, ScanDir[scan_i]) :
     \E ub \in UBIf(o \in {"open_fail", "new_fail"}) :
       LET st == check_register_mouse(G, ScanDir[scan_i], o, ub)
       IN /\ Store(st)
          /\ pc' = IF st.crashed THEN "crashed" ELSE "scan"
          /\ last' = IF start_with_event(ScanDir[scan_i])
                     THEN [op |-> "register", path |-> ScanDir[scan_i], outcome |-> o]
                     ELSE NoLast
  /\ scan_i' = scan_i + 1
  /\ UNCHANGED <<stopped, cur, written, readlog, world, adds_left, reads_left>>

\* lines 150: readdir returns NULL
ScanDone ==
  /\ pc = "scan"
  /\ scan_i > Len(ScanDir)
  /\ pc' = "udev"
  /\ last' = NoLast
  /\ KeepG
  /\ UNCHANGED <<scan_i, stopped, cur, written, readlog, world, adds_left, reads_left>>

\* lines 152-165: udev_new, udev_monitor_new_from_netlink and
\* udev_monitor_enable_receiving all succeed
UdevInit ==
  /\ pc = "udev"
  /\ pc' = "loop"
  /\ last' = NoLast
  /\ KeepG
  /\ UNCHANGED <<scan_i, stopped, cur, written, readlog, world, adds_left, reads_left>>

\* a fatal exit that unregisters the mouse at the head of the list on its way out
UdevFail_ReleasesHead ==
  /\ pc = "udev"
  /\ LET st == unregister_mouse(G, mice, "go")
     IN Store(st) /\ KeepLogs(st)
  /\ pc' = "exited"
  /\ last' = NoLast
  /\ UNCHANGED <<scan_i, stopped, cur, world, adds_left, reads_left>>

\* lines 152-165: one of them fails, main returns EXIT_FAILURE
UdevFail ==
  /\ pc = "udev"
  /\ pc' = "exited"
  /\ last' = NoLast
  /\ KeepG
  /\ UNCHANGED <<scan_i, stopped, cur, written, readlog, world, adds_left, reads_left>>

\* line 167: g.stopped is false, the body is entered
LoopEnter ==
  /\ pc = "loop"
  /\ ~stopped
  /\ pc' = "hotplug"
  /\ last' = NoLast
  /\ KeepG
  /\ UNCHANGED <<scan_i, stopped, cur, written, readlog, world, adds_left, reads_left>>

\* lines 169-175: a notification whose action is "add"
UdevAdd ==
  /\ pc = "hotplug"
  /\ adds_left > 0
  /\ \E path \in DevNodes : \E o \in OutcomesFor(G, path) :
     \E ub \in UBIf(o \in {"open_fail", "new_fail"}) :
       LET st == check_register_mouse(G, path, o, ub)
       IN /\ Store(st)
          /\ pc' = IF st.crashed THEN "crashed" ELSE "hotplug"
          /\ last' = IF path # -1 /\ start_with_event(path)
                     THEN [op |-> "register", path |-> path, outcome |-> o]
                     ELSE NoLast
  /\ adds_left' = adds_left - 1
  /\ UNCHANGED <<scan_i, stopped, cur, written, readlog, world, reads_left>>

\* lines 169-175: a notification with another action ("remove", "change", ...)
UdevOther ==
  /\ pc = "hotplug"
  /\ adds_left > 0
  /\ adds_left' = adds_left - 1
  /\ last' = NoLast
  /\ KeepG
  /\ UNCHANGED <<pc, scan_i, stopped, cur, written, readlog, world, reads_left>>

\* line 169: udev_monitor_receive_device returns NULL; line 177: mouse = g.mice
UdevNone ==
  /\ pc = "hotplug"
  /\ cur' = mice
  /\ pc' = IF mice = NULL THEN "sweep" ELSE "drain"
  /\ last' = NoLast
  /\ KeepG
  /\ UNCHANGED <<scan_i, stopped, written, readlog, world, adds_left, reads_left>>

\* lines 181-209: libevdev_next_event delivers evt from the current mouse
ReadEvent ==
  /\ pc = "drain"
  /\ reads_left > 0
  /\ \E evt \in world.events : \E ub \in UBIf(NegTimes2Overflows(evt.value)) :
       LET r    == ProcessEvent(mem[cur].state, evt)
           sink == mem[cur].dev_uinput
           \* line 205 is reached and its arithmetic overflows, and the build traps
           trap == /\ HasFlag(r.state, MOUSE_STATE_SCROLLING)
                   /\ evt.type = EV_REL /\ evt.code = REL_Y
                   /\ NegTimes2Overflows(evt.value) /\ ub = "crash"
       IN /\ mem' = [mem EXCEPT ![cur].state = r.state]
          /\ readlog' = [readlog EXCEPT ![sink] = Append(@, evt)]
          /\ written' = IF trap THEN written
                        ELSE [written EXCEPT ![sink] = @ \o r.out]
          /\ pc' = IF trap THEN "crashed" ELSE "drain"
  /\ reads_left' = reads_left - 1
  /\ last' = [op |-> "read", path |-> fds[mem[cur].fd], outcome |-> "event"]
  /\ trace' = << >>
  /\ UNCHANGED <<scan_i, mice, alloc, stopped, cur, fds, descs, grab, sinks,
                 world, adds_left>>

\* line 177: mouse = mouse->next, and the loop ends on NULL
NextMouse == 
  /\ cur' = mem[cur].next
  /\ pc' = IF mem[cur].next = NULL THEN "sweep" ELSE "drain"

\* lines 181-183, 211: libevdev_next_event returns -EAGAIN
ReadAgain ==
  /\ pc = "drain"
  /\ NextMouse
  /\ last' = [op |-> "read", path |-> fds[mem[cur].fd], outcome |-> "again"]
  /\ KeepG
  /\ UNCHANGED <<scan_i, stopped, written, readlog, world, adds_left, reads_left>>

\* lines 181-183, 211-214: libevdev_next_event fails with another error
ReadError ==
  /\ pc = "drain"
  /\ mem' = [mem EXCEPT ![cur].state = SetFlag(@, MOUSE_STATE_DEAD)]
  /\ NextMouse
  /\ last' = [op |-> "read", path |-> fds[mem[cur].fd], outcome |-> "error"]
  /\ trace' = << >>
  /\ UNCHANGED <<scan_i, mice, alloc, stopped, fds, descs, grab, sinks,
                 written, readlog, world, adds_left, reads_left>>

\* line 217
Sweep ==
  /\ pc = "sweep"
  /\ \E ub \in UBIf(\E m \in alloc : mem[m].dev = NULL) :
       LET st == unregister_dead_mice(G, ub)
       IN /\ Store(st)
          /\ KeepLogs(st)
          /\ pc' = IF st.crashed THEN "crashed" ELSE "loop"
  /\ last' = NoLast
  /\ UNCHANGED <<scan_i, stopped, cur, world, adds_left, reads_left>>

\* a marking loop that stops after the head of the list
MarkDeadFrom_HeadOnly(hp, mouse) ==
  IF mouse = NULL THEN hp
  ELSE [hp EXCEPT ![mouse].state = SetFlag(@, MOUSE_STATE_DEAD)]

RECURSIVE MarkDeadFrom(_, _)
\* lines 220-222, started at mouse
MarkDeadFrom(hp, mouse) ==
  IF mouse = NULL THEN hp
  ELSE MarkDeadFrom([hp EXCEPT ![mouse].state = SetFlag(@, MOUSE_STATE_DEAD)],
                    hp[mouse].next)

\* line 167 with g.stopped set, then lines 220-224
Shutdown ==
  /\ pc = "loop"
  /\ stopped
  /\ \E ub \in UBIf(\E m \in alloc : mem[m].dev = NULL) :
       LET st == unregister_dead_mice([G EXCEPT !.mem = MarkDeadFrom(mem, mice)], ub)
       IN /\ Store(st)
          /\ KeepLogs(st)
          /\ pc' = IF st.crashed THEN "crashed" ELSE "exited"
  /\ last' = NoLast
  /\ UNCHANGED <<scan_i, stopped, cur, world, adds_left, reads_left>>

Next ==
  \/ sig_handler
  \/ ScanEntry
  \/ ScanDone
  \/ UdevInit
  \/ UdevFail
  \/ LoopEnter
  \/ UdevAdd
  \/ UdevOther
  \/ UdevNone
  \/ ReadEvent
  \/ ReadAgain
  \/ ReadError
  \/ Sweep
  \/ Shutdown

Spec == Init /\ [][Next]_vars

(* --------------------------- well-formedness --------------------------- *)
RECURSIVE ListFrom(_, _)
\* the addresses reached from m through next
ListFrom(hp, m) == IF m = NULL THEN << >> ELSE << m >> \o ListFrom(hp, hp[m].next)

\* the registry, head first
Registry == ListFrom(mem, mice)

Range(f) == {f[i] : i \in DOMAIN f}

TypeOK ==
  /\ pc \in {"scan", "udev", "loop", "hotplug", "drain", "sweep", "exited", "crashed"}
  /\ mice \in MouseIds \cup {NULL}
  /\ alloc \subseteq MouseIds
  /\ pc # "crashed" => Range(Registry) = alloc
  /\ pc = "drain" => cur \in Range(Registry)
  /\ adds_left \in 0..MaxAdds
  /\ reads_left \in 0..(MaxReads + LifeReads)

(* ------------------- gesture recognition and translation ---------------- *)
Scrolling(s) == HasFlag(s, MOUSE_STATE_SCROLLING)
Dead(s)      == HasFlag(s, MOUSE_STATE_DEAD)

IsMiddle(evt) == evt.type = EV_KEY /\ evt.code = BTN_MIDDLE
IsPress(evt)   == IsMiddle(evt) /\ evt.value # 0
IsRelease(evt) == IsMiddle(evt) /\ evt.value = 0
IsRelY(evt)   == evt.type = EV_REL /\ evt.code = REL_Y

\* the mice that own a uinput device
Mirrored == {m \in alloc : mem[m].dev_uinput # NULL}

Press   == Event(EV_KEY, BTN_MIDDLE, 1)
Release == Event(EV_KEY, BTN_MIDDLE, 0)

\* w = -2v in the integers (stated without leaving the range of 32 bits)
IsMinusTwice(w, v) == w % 2 = 0 /\ (w \div 2) + v = 0

\* evt is a high-resolution wheel event of value -2v
IsWheelFor(evt, v) ==
  evt.type = EV_REL /\ evt.code = REL_WHEEL_HI_RES /\ IsMinusTwice(evt.value, v)

\* this step is one pass of lines 181-209: an event was read from the mouse cur
ReadStep == pc = "drain" /\ reads_left' = reads_left - 1

\* the uinput device of the mouse being drained, and the event the step read
CurSink == mem[cur].dev_uinput
EvtRead == readlog'[CurSink][Len(readlog'[CurSink])]

\* the step wrote exactly the events out to the sink of cur and nothing elsewhere
Wrote(out) == written' = [written EXCEPT ![CurSink] = @ \o out]

\* C1: a REL_Y event of value v read while the mouse is Scrolling writes exactly
\* one event to its sink, REL_WHEEL_HI_RES of value -2v, and not the REL_Y event.
C1_Claim ==
  [][ (ReadStep /\ Scrolling(mem[cur].state) /\ IsRelY(EvtRead))
        => /\ Len(written'[CurSink]) = Len(written[CurSink]) + 1
           /\ IsWheelFor(written'[CurSink][Len(written'[CurSink])], EvtRead.value)
           /\ Wrote(<< written'[CurSink][Len(written'[CurSink])] >>) ]_vars

\* C2: a middle-button press read while Idle writes nothing and leaves the mouse
\* Scrolling; a release read while Scrolling is written unchanged and leaves it Idle.
C2_PressReleaseAsymmetry ==
  [][ ReadStep =>
        /\ (~Scrolling(mem[cur].state) /\ IsPress(EvtRead))
             => (written' = written /\ Scrolling(mem'[cur].state))
        /\ (Scrolling(mem[cur].state) /\ IsRelease(EvtRead))
             => (Wrote(<< EvtRead >>) /\ ~Scrolling(mem'[cur].state)) ]_vars

\* a press was consumed and the release that followed was replayed
C2_Witness ==
  \E m \in Mirrored :
    /\ readlog[mem[m].dev_uinput] = << Press, Release >>
    /\ written[mem[m].dev_uinput] = << Release >>
    /\ ~Scrolling(mem[m].state)

\* C3: an event other than a middle-button key event read while Idle is written
\* to the sink unchanged, alone, and the mouse stays Idle.
C3_PassThrough ==
  [][ (ReadStep /\ ~Scrolling(mem[cur].state) /\ ~IsMiddle(EvtRead))
        => (Wrote(<< EvtRead >>) /\ ~Scrolling(mem'[cur].state)) ]_vars

\* an Idle mouse forwarded a key event of another code and a motion event
C3_Witness ==
  \E m \in Mirrored :
    /\ readlog[mem[m].dev_uinput] = << Event(EV_KEY, KEY_ESC, 1), Event(EV_REL, REL_Y, 5) >>
    /\ written[mem[m].dev_uinput] = readlog[mem[m].dev_uinput]
    /\ ~Scrolling(mem[m].state)

\* C4 as stated: nothing is written for an event other than REL_Y read while the
\* mouse is Scrolling, middle-button events included.
C4_Claim ==
  [][ (ReadStep /\ Scrolling(mem[cur].state) /\ ~IsRelY(EvtRead))
        => written' = written ]_vars

\* C4 amended: nothing is written for an event read while Scrolling that is neither
\* REL_Y nor a middle-button release; a middle-button event of nonzero value keeps
\* the mouse Scrolling, and a release is written unchanged.
C4_ScrollingDrops ==
  [][ (ReadStep /\ Scrolling(mem[cur].state) /\ ~IsRelY(EvtRead)) =>
        /\ ~IsRelease(EvtRead) => (written' = written /\ Scrolling(mem'[cur].state))
        /\ IsRelease(EvtRead) => Wrote(<< EvtRead >>) ]_vars

\* a Scrolling mouse dropped a second press, a key of another code and a REL_X
C4_Witness ==
  \E m \in Mirrored :
    /\ Len(readlog[mem[m].dev_uinput]) >= 3
    /\ IsPress(readlog[mem[m].dev_uinput][1])
    /\ \E i, j \in 2..Len(readlog[mem[m].dev_uinput]) :
         /\ readlog[mem[m].dev_uinput][i] = Event(EV_KEY, KEY_ESC, 1)
         /\ readlog[mem[m].dev_uinput][j] = Event(EV_KEY, BTN_MIDDLE, 2)
    /\ written[mem[m].dev_uinput] = << >>
    /\ Scrolling(mem[m].state)

\* C5: a mouse starts Idle; a middle-button event of nonzero value leaves it
\* Scrolling and one of value 0 leaves it Idle, whatever it was; any other event,
\* and any step that reads no event from it, leaves its gesture state as it was.
C5_StateChangesOnlyOnMiddle ==
  [][ /\ \A m \in alloc' \ alloc : ~Scrolling(mem'[m].state)
      /\ \A m \in alloc \cap alloc' :
           Scrolling(mem'[m].state) =
             IF ReadStep /\ m = cur /\ IsMiddle(EvtRead)
             THEN EvtRead.value # 0
             ELSE Scrolling(mem[m].state) ]_vars

\* a press was repeated and the mouse is still Scrolling, then failed a read
C5_Witness ==
  \E m \in Mirrored :
    /\ readlog[mem[m].dev_uinput] = << Press, Event(EV_KEY, BTN_MIDDLE, 2), Release, Release >>
    /\ ~Scrolling(mem[m].state)
    /\ Dead(mem[m].state)

\* C1 within the range of int: when -2v fits in 32 bits the claim holds
C1_InRange ==
  [][ (ReadStep /\ Scrolling(mem[cur].state) /\ IsRelY(EvtRead)
         /\ ~NegTimes2Overflows(EvtRead.value))
        => /\ Len(written'[CurSink]) = Len(written[CurSink]) + 1
           /\ IsWheelFor(written'[CurSink][Len(written'[CurSink])], EvtRead.value)
           /\ Wrote(<< written'[CurSink][Len(written'[CurSink])] >>) ]_vars

RECURSIVE RefMatches(_, _, _)
\* out is the event-by-event reference translation of the events in, read by a
\* mouse whose gesture state is scr (TRUE: Scrolling): a press writes nothing;
\* REL_Y = v while Scrolling writes wheel(-2v); another event while Scrolling
\* writes nothing; anything else is written unchanged
RefMatches(in, scr, out) ==
  IF in = << >> THEN out = << >>
  ELSE LET e    == Head(in)
           scr2 == IF IsMiddle(e) THEN e.value # 0 ELSE scr
       IN IF IsPress(e) THEN RefMatches(Tail(in), scr2, out)
          ELSE IF scr2 /\ IsRelY(e)
               THEN /\ out # << >>
                    /\ IsWheelFor(Head(out), e.value)
                    /\ RefMatches(Tail(in), scr2, Tail(out))
          ELSE IF scr2 THEN RefMatches(Tail(in), scr2, out)
          ELSE /\ out # << >>
               /\ Head(out) = e
               /\ RefMatches(Tail(in), scr2, Tail(out))

\* the scenario of the specification
Scenario == << Press, Event(EV_REL, REL_Y, 5), Event(EV_REL, REL_Y, -3), Release >>

\* C6: the events written to a mouse's sink are the reference translation of the
\* events read from it, in order, nothing added, lost or repeated; the scenario
\* [down, REL_Y=+5, REL_Y=-3, up] yields [wheel(-10), wheel(+6), up] and ends Idle.
C6_Claim ==
  \A m \in Mirrored :
    /\ RefMatches(readlog[mem[m].dev_uinput], FALSE, written[mem[m].dev_uinput])
    /\ readlog[mem[m].dev_uinput] = Scenario
         => /\ written[mem[m].dev_uinput] =
                 << Event(EV_REL, REL_WHEEL_HI_RES, -10),
                    Event(EV_REL, REL_WHEEL_HI_RES, 6), Release >>
            /\ ~Scrolling(mem[m].state)

\* C6 within the range of int: as C6 for the mice that never read a REL_Y whose
\* doubling overflows
C6_InRange ==
  \A m \in Mirrored :
    (\A i \in DOMAIN readlog[mem[m].dev_uinput] :
        ~NegTimes2Overflows(readlog[mem[m].dev_uinput][i].value))
      => /\ RefMatches(readlog[mem[m].dev_uinput], FALSE, written[mem[m].dev_uinput])
         /\ readlog[mem[m].dev_uinput] = Scenario
              => /\ written[mem[m].dev_uinput] =
                      << Event(EV_REL, REL_WHEEL_HI_RES, -10),
                         Event(EV_REL, REL_WHEEL_HI_RES, 6), Release >>
                 /\ ~Scrolling(mem[m].state)

\* a mouse has read the whole scenario
C6_ScenarioRead == \E m \in Mirrored : readlog[mem[m].dev_uinput] = Scenario

\* the middle-button releases of a sequence of events
Releases(seq) == {i \in DOMAIN seq : IsRelease(seq[i])}

\* the gesture state after the first k events of in, starting Idle (TRUE: Scrolling)
ScrollingAfter(in, k) ==
  LET mid == {j \in 1..k : IsMiddle(in[j])}
  IN mid # {} /\ in[CHOOSE j \in mid : \A i \in mid : i <= j].value # 0

\* C7 as stated: as many releases are written to the sink as were read while the
\* mouse was Idle.
C7_Claim ==
  \A m \in Mirrored :
    Cardinality(Releases(written[mem[m].dev_uinput])) =
      Cardinality({i \in Releases(readlog[mem[m].dev_uinput]) :
                     ~ScrollingAfter(readlog[mem[m].dev_uinput], i - 1)})

\* C7 amended: as many releases are written to the sink as were read, whether the
\* mouse was Idle or Scrolling when it read them.
C7_EveryReleaseForwarded ==
  \A m \in Mirrored :
    Cardinality(Releases(written[mem[m].dev_uinput])) =
      Cardinality(Releases(readlog[mem[m].dev_uinput]))

\* a release read while Scrolling and a release read while Idle were both written
C7_Witness ==
  \E m \in Mirrored :
    /\ readlog[mem[m].dev_uinput] = << Press, Release, Release >>
    /\ written[mem[m].dev_uinput] = << Release, Release >>

(* ----------------------- registration and removal ----------------------- *)
\* this step ran check_register_mouse on an event node and the call returned
Registered(outcomes) ==
  last'.op = "register" /\ last'.outcome \in outcomes /\ pc' # "crashed"

\* C8: when open, the descriptor, the uinput device or the grab fails, the call
\* leaves the registry as it was and nothing it acquired: no descriptor, no open
\* handle, no grab, no uinput device.
C8_Claim ==
  [][ Registered({"open_fail", "new_fail", "uinput_fail", "grab_fail"})
        => /\ mice' = mice /\ mem' = mem /\ alloc' = alloc
           /\ fds' = fds /\ descs' = descs /\ grab' = grab
           /\ sinks' = sinks ]_vars

\* C9: for a device without relative motion or without the middle button the call
\* adds no entry, creates no uinput device, takes no grab and leaves no handle or
\* descriptor open.
C9_IneligibleLeavesNothing ==
  [][ (last'.op = "register" /\ last'.outcome \in {"no_rel", "no_mid"})
        => /\ pc' # "crashed"
           /\ mice' = mice /\ mem' = mem /\ alloc' = alloc
           /\ fds' = fds /\ descs' = descs /\ grab' = grab
           /\ sinks' = sinks ]_vars

\* a device without the middle button was just turned down while a mouse is
\* registered, and every open handle and descriptor belongs to a registered mouse
C9_Witness ==
  /\ last.op = "register" /\ last.outcome = "no_mid"
  /\ mice # NULL
  /\ {f \in FdIds : fds[f] # 0} = {mem[m].fd : m \in alloc}
  /\ descs = {mem[m].dev : m \in alloc}

\* this step ran unregister_dead_mice: line 217, or lines 220-223
SweepStep == pc = "sweep" \/ (pc = "loop" /\ stopped)

\* C10: a sweep that destroys a mouse destroys its uinput device with it.
C10_Claim ==
  [][ SweepStep => \A m \in alloc \ alloc' : mem[m].dev_uinput \notin sinks' ]_vars

(* -------------------------- grabs and handles -------------------------- *)
\* the event node a struct has open, 0 when it has none
NodeOf(m) == IF mem[m].fd \in FdIds THEN fds[mem[m].fd] ELSE 0

\* the structs freed by the last step
Freed == {trace[i].h : i \in {j \in DOMAIN trace : trace[j].op = "free"}}

HasEntry(p)  == \E m \in Range(Registry) : NodeOf(m) = p
HoldsGrab(p) == grab[p] # 0

\* C11: between any two steps of the program (a scan entry, a notification, a
\* read, a sweep, the shutdown), an event node has an entry in the registry
\* exactly when the process holds the exclusive grab on it.
C11_EntryIffGrab == \A p \in Paths : HasEntry(p) <=> HoldsGrab(p)

\* a sweep has just destroyed a mouse, another one is still registered
C11_Witness ==
  /\ pc = "loop"
  /\ Freed # {}
  /\ \E p, q \in Paths : HasEntry(p) /\ HoldsGrab(p) /\ ~HasEntry(q) /\ ~HoldsGrab(q)

\* the positions, in the release calls of the step, of the calls op made on h
Calls(op, h) == {i \in DOMAIN trace' : trace'[i].op = op /\ trace'[i].h = h}

\* every release call of the step was given a handle that was in use
AllLive(op) == \A i \in DOMAIN trace' : trace'[i].op = op => trace'[i].live

ReadAttempt == last'.op = "read"
ReadFailed  == last'.op = "read" /\ last'.outcome = "error"

\* a step of main, that is, any step but the delivery of the signal
MainStep == stopped' = stopped

DeadEntries == {m \in Range(Registry) : Dead(mem[m].state)}

\* C13: a read that fails with an error other than would-block marks its mouse
\* Dead; no read is made on a mouse that is Dead; the drain of an iteration
\* ends in the sweep of that iteration; the sweep takes every Dead entry out of
\* the registry and releases its grab, so that no Dead entry is left when the
\* next iteration starts.
C13_DeadRemovedInSameIteration ==
  [][ /\ ReadFailed => Dead(mem'[cur].state) /\ cur \in Range(Registry')
      /\ ReadAttempt => ~Dead(mem[cur].state)
      /\ pc = "drain" => pc' \in {"drain", "sweep", "crashed"}
      /\ pc = "sweep" /\ MainStep =>
           /\ pc' = "loop"
           /\ \A m \in DeadEntries :
                m \notin Range(Registry') /\ m \notin alloc' /\ grab'[NodeOf(m)] = 0
      /\ pc' \in {"loop", "hotplug"} => DeadEntries' = {}
    ]_vars

\* the only mouse failed a read and the sweep of that iteration destroyed it
C13_Witness ==
  /\ pc = "loop" /\ ~stopped
  /\ Freed # {}
  /\ mice = NULL
  /\ \A p \in Paths : ~HoldsGrab(p)

Alive(m) == ~Dead(mem[m].state)

\* the step leaves the handles, the grab, the sink and the gesture state of m alone
Untouched(m) ==
  /\ m \in alloc'
  /\ mem'[m].fd = mem[m].fd
  /\ mem'[m].dev = mem[m].dev
  /\ mem'[m].dev_uinput = mem[m].dev_uinput
  /\ mem'[m].state = mem[m].state
  /\ fds'[mem[m].fd] = fds[mem[m].fd]
  /\ mem[m].dev \in descs'
  /\ grab'[NodeOf(m)] = mem[m].fd
  /\ mem[m].dev_uinput \in sinks'
  /\ written'[mem[m].dev_uinput] = written[mem[m].dev_uinput]

\* C14: the step of a failing read changes nothing of any other entry and the
\* drain goes on with the entry that follows; the sweep that ends the
\* iteration leaves every entry that is not Dead registered, in order, with its
\* handles, grab, sink and gesture state, and the loop goes on.
C14_FailureIsLocal ==
  [][ /\ ReadFailed =>
           /\ Registry' = Registry
           /\ \A m \in Range(Registry) \ {cur} : Untouched(m) /\ mem'[m] = mem[m]
           /\ cur' = mem[cur].next
           /\ pc' = IF cur' = NULL THEN "sweep" ELSE "drain"
      /\ pc = "sweep" /\ MainStep =>
           /\ Registry' = SelectSeq(Registry, Alive)
           /\ \A m \in Range(Registry) \ DeadEntries : Untouched(m)
           /\ pc' = "loop"
    ]_vars

\* a sweep has just destroyed a mouse that failed a read, and the mouse left
\* in the registry is still in the middle of a gesture
C14_Witness ==
  /\ pc = "loop" /\ ~stopped
  /\ Freed # {}
  /\ \E m \in Range(Registry) : Scrolling(mem[m].state) /\ HoldsGrab(NodeOf(m))

(* ------------------------------ shutdown ------------------------------- *)
\* line 167 has found g.stopped set: the step made now is lines 220-224
StopObserved == pc = "loop" /\ stopped

\* C15: the step that follows the observation of the stop signal destroys
\* every mouse of the registry, each by exactly one grab release, one close and
\* one free, and main returns with an empty registry, no grab held and no
\* descriptor open.
C15_ShutdownEmptiesRegistry ==
  [][ StopObserved =>
        /\ pc' = "exited"
        /\ mice' = NULL /\ alloc' = {}
        /\ \A p \in Paths : grab'[p] = 0
        /\ \A f \in FdIds : fds'[f] = 0
        /\ descs' = {}
        /\ \A m \in Range(Registry) :
             /\ Cardinality(Calls("libevdev_grab", mem[m].dev)) = 1
             /\ Cardinality(Calls("close", mem[m].fd)) = 1
             /\ Cardinality(Calls("free", m)) = 1
        /\ Cardinality({i \in DOMAIN trace' : trace'[i].op = "free"}) = Len(Registry)
        /\ AllLive("libevdev_grab") /\ AllLive("close") /\ AllLive("free")
    ]_vars

\* main has returned after the stop signal, and its last sweep destroyed three mice
C15_Witness ==
  /\ pc = "exited" /\ stopped
  /\ Cardinality(Freed) = 3
  /\ mice = NULL
  /\ \A p \in Paths : ~HoldsGrab(p)

\* C16: the delivery of the signal sets the flag and nothing else; with the
\* flag set, the drain of a burst, the visit of the remaining mice and the
\* sweep go on as without it, and the loop top is reached through the sweep
\* only; mice are destroyed by the sweep or at the loop top, and main returns
\* for the signal from the loop top only.
C16_StopActsAtLoopTop ==
  [][ /\ ~MainStep =>
           UNCHANGED <<pc, scan_i, mice, mem, alloc, cur, fds, descs, grab, sinks,
                       written, readlog>>
      /\ stopped /\ pc = "drain" =>
           /\ ENABLED ReadAgain /\ ENABLED ReadError
           /\ reads_left > 0 => ENABLED ReadEvent
           /\ pc' \in {"drain", "sweep", "crashed"}
      /\ stopped /\ pc = "hotplug" => pc' \in {"hotplug", "drain", "sweep", "crashed"}
      /\ stopped /\ pc = "sweep" => pc' = "loop" /\ Registry' = SelectSeq(Registry, Alive)
      /\ Range(Registry) \ alloc' # {} => pc = "sweep" \/ StopObserved
      /\ pc' = "exited" => StopObserved \/ pc = "udev"
      /\ StopObserved => pc' = "exited"
    ]_vars

\* the signal has been delivered, and since then an event of a burst has been
\* read and translated
C16_Witness ==
  /\ stopped
  /\ pc = "drain"
  /\ last.op = "read" /\ last.outcome = "event"
  /\ \E m \in Mirrored : written[mem[m].dev_uinput] # << >>

(* ----------------------------- registration ---------------------------- *)
\* C17: no two entries of the registry have the same event node open.
C17_OneEntryPerNode ==
  \A i, j \in DOMAIN Registry :
    i # j => NodeOf(Registry[i]) # NodeOf(Registry[j])

\* a notification "add" has just arrived for a node that was registered
\* already: the attempt failed at the grab and the node still has its entry
C17_Witness ==
  /\ pc = "hotplug"
  /\ last.op = "register" /\ last.outcome = "grab_fail"
  /\ HasEntry(last.path)
  /\ Len(Registry) = 2

\* the last step was a registration attempt in which open or
\* libevdev_new_from_fd failed
NoDescriptorBuilt ==
  last.op = "register" /\ last.outcome \in {"open_fail", "new_fail"}

\* C18: a registration attempt in which open or the construction of the
\* descriptor fails makes no grab release and no descriptor free on a
\* descriptor that was not built, and ends normally.
C18_Claim ==
  NoDescriptorBuilt =>
    /\ pc # "crashed"
    /\ \A i \in DOMAIN trace :
         trace[i].op \in {"libevdev_grab", "libevdev_free"} => trace[i].live

(* -------------------------------- sweep -------------------------------- *)
IsNext(o) == o.op = "next"

\* the entries whose next link the last step read, in the order of the reads
Visited == [i \in DOMAIN SelectSeq(trace, IsNext) |-> SelectSeq(trace, IsNext)[i].h]

\* C19: unregister_dead_mice destroys exactly the Dead entries and leaves the
\* others registered in their order; it reads the next link of every entry
\* once, in list order, and never that of a struct already freed.
C19_SweepRemovesExactlyDead ==
  [][ pc = "sweep" /\ MainStep =>
        /\ Registry' = SelectSeq(Registry, Alive)
        /\ alloc' = Range(Registry) \ DeadEntries
        /\ Freed' = DeadEntries
        /\ Visited' = Registry
        /\ AllLive("next")
    ]_vars

\* a sweep over three entries has just destroyed the middle one
C19_Witness ==
  /\ pc = "loop"
  /\ Len(Visited) = 3
  /\ Freed = {Visited[2]}
  /\ Registry = << Visited[1], Visited[3] >>

(* ------------------------------ exit paths ----------------------------- *)
\* C20 as claimed: whenever main has returned, no mouse is registered, no
\* grab is held and no descriptor is open.
C20_Claim ==
  pc = "exited" =>
    /\ mice = NULL
    /\ \A p \in Paths : ~HoldsGrab(p)
    /\ \A f \in FdIds : fds[f] = 0

\* C20: main returns either from the loop top after the stop signal, with
\* every mouse unregistered, or from the set-up of the hot-plug subscription,
\* and then without a single release call: the registry, the grabs and the
\* descriptors are what the scan left.
C20_ExitPaths ==
  [][ pc' = "exited" /\ pc # "exited" =>
        \/ /\ StopObserved
           /\ mice' = NULL /\ alloc' = {}
           /\ \A p \in Paths : grab'[p] = 0
           /\ \A f \in FdIds : fds'[f] = 0
        \/ /\ pc = "udev"
           /\ trace' = << >>
           /\ UNCHANGED <<mice, mem, alloc, fds, descs, grab, sinks>>
    ]_vars

\* main has returned from the set-up of the hot-plug subscription with two
\* mice registered and grabbed
C20_Witness ==
  /\ pc = "exited"
  /\ Len(Registry) >= 2
  /\ \A m \in Range(Registry) : HoldsGrab(NodeOf(m)) /\ fds[mem[m].fd] # 0
====
